---- MODULE Spec2Model ----
(***************************************************************************)
(* Model of the warehouse persistence layer of lsf-services/warehouse-     *)
(* system: the WarehouseRepository (warehouse-db/src/repositories/         *)
(* warehouses.rs), the request handlers that call it (warehouse-api/src/   *)
(* main.rs) and the error taxonomy (warehouse-core/src/error.rs).          *)
(*                                                                         *)
(* Every SQL statement is one atomic step.  A handler that issues a single *)
(* statement is one action; create_warehouse issues two (the code_exists   *)
(* pre-check, then the INSERT) and is two actions, so that other requests  *)
(* interleave between them.                                                *)
(*                                                                         *)
(* Spec is the concurrent system over a table of several rows; in it the   *)
(* storage clock stands still.  SpecMerge is one stored record under every *)
(* shape of partial update, with the clock advancing.                      *)
(***************************************************************************)
EXTENDS Integers, Sequences, FiniteSets, TLC

\* ------------------------------------------------------------------ bounds

\* Rows the table may hold (INSERT is disabled beyond it).
MaxRows == 2
\* Requests that may be in flight at once.
MaxInFlight == 2

Reqs == 1..MaxInFlight
Ids == 1..MaxRows

\* ------------------------------------------------------------ value domains

\* Rust Option<T>.
None == << >>
Some(v) == <<v>>

\* A member of a JSON request body: missing, null, or a value.
Absent == <<"absent">>
JsonNull == <<"null">>
JsonVal(v) == <<"val", v>>

\* serde: an Option<T> field is None when its key is missing or null.
OptionFromJson(j) == IF j[1] = "val" THEN Some(j[2]) ELSE None

\* Codes a caller may send; "" fails the length(min = 1) validation.
Codes == {"WH-01", "WH-02"}
CreateCodes == Codes \cup {""}

\* ------------------------------------------------------------------- state

VARIABLES
    rows,       \* table warehouse.warehouses, in insertion order
    inflight,   \* inflight[r]: the payload of a create request that passed
                \* the pre-check and has not yet inserted (None: slot free)
    resp,       \* the response most recently returned to a caller
    clock,      \* the storage engine's NOW()
    listing,    \* the list request between its COUNT query and its data
                \* query (None: no list request in flight)
    in_use      \* the pool's count of connections checked out

vars == <<rows, inflight, resp, clock, listing, in_use>>

\* ------------------------------------------------------------ payload types

\* struct CreateWarehouse, as sent by a caller.
CreatePayload(code) ==
    [warehouse_code |-> code, warehouse_name |-> "Central",
     warehouse_type |-> None, address |-> None, city |-> Some("Jakarta"),
     state |-> None, postal_code |-> None, country |-> None,
     email |-> None, phone |-> None, manager_user_id |-> None,
     timezone |-> None]

\* The keys of struct UpdateWarehouse.
UpdateKeys ==
    {"warehouse_name", "warehouse_type", "address", "city", "state",
     "postal_code", "country", "email", "phone", "manager_user_id",
     "timezone"}

\* The keys a caller may put in the body of an update request: those of
\* UpdateWarehouse and warehouse_code (UpdateWarehouseRequest has it).
BodyKeys == UpdateKeys \cup {"warehouse_code"}

EmptyBody == [k \in BodyKeys |-> Absent]

\* Json(payload): Json<UpdateWarehouse> -- the body deserialized into the
\* struct.  The struct has no warehouse_code field and does not deny unknown
\* fields, so that key is dropped.
UpdateWarehouse(body) == [k \in UpdateKeys |-> OptionFromJson(body[k])]

\* ------------------------------------------------------------- validation

LengthOk(s, min, max) == Len(s) >= min /\ Len(s) <= max

\* #[validate(email)], on the addresses the model uses.
IsEmail(s) == s \in {"ops@example.com"}

\* CreateWarehouse::validate
ValidateCreate(w) ==
    /\ LengthOk(w.warehouse_code, 1, 50)
    /\ LengthOk(w.warehouse_name, 1, 255)
    /\ (w.email # None => IsEmail(w.email[1]))
    /\ (w.phone # None => LengthOk(w.phone[1], 0, 20))

\* UpdateWarehouse::validate
ValidateUpdate(p) ==
    /\ (p.warehouse_name # None => LengthOk(p.warehouse_name[1], 1, 255))
    /\ (p.email # None => IsEmail(p.email[1]))
    /\ (p.phone # None => LengthOk(p.phone[1], 0, 20))

\* ------------------------------------------------------------ error taxonomy

\* Faulty variant of ErrorCode: a storage failure gets the code of an
\* unclassified one.
ErrorCode_Merged(kind) ==
    CASE kind = "Database" -> "INTERNAL_ERROR"
      [] kind = "Validation" -> "VALIDATION_ERROR"
      [] kind = "NotFound" -> "NOT_FOUND"
      [] kind = "AlreadyExists" -> "ALREADY_EXISTS"
      [] kind = "Unauthorized" -> "UNAUTHORIZED"
      [] kind = "Forbidden" -> "FORBIDDEN"
      [] kind = "Config" -> "CONFIG_ERROR"
      [] kind = "ExternalService" -> "EXTERNAL_SERVICE_ERROR"
      [] kind = "Internal" -> "INTERNAL_ERROR"

\* AppError::into_response: the error code of each kind.
ErrorCode(kind) ==
    CASE kind = "Database" -> "DATABASE_ERROR"
      [] kind = "Validation" -> "VALIDATION_ERROR"
      [] kind = "NotFound" -> "NOT_FOUND"
      [] kind = "AlreadyExists" -> "ALREADY_EXISTS"
      [] kind = "Unauthorized" -> "UNAUTHORIZED"
      [] kind = "Forbidden" -> "FORBIDDEN"
      [] kind = "Config" -> "CONFIG_ERROR"
      [] kind = "ExternalService" -> "EXTERNAL_SERVICE_ERROR"
      [] kind = "Internal" -> "INTERNAL_ERROR"

\* The repository returns anyhow::Result: inside it `?` turns the sqlx::Error
\* of a failed statement into an anyhow::Error, and the handler's `?` turns
\* that into AppError through #[from] anyhow::Error.
AppErrorFromRepository == "Internal"

\* A response: the handler (or repository method) that produced it, the
\* inputs it was called with, and the outcome.  kind is "Ok" on success and
\* the AppError variant otherwise; error_code is the error object's code.
\* seq alternates with every response, so that two equal responses in a row
\* are two steps.
Response(op, id, code, body, kind, data) ==
    [op |-> op, id |-> id, code |-> code, body |-> body, kind |-> kind,
     error_code |-> IF kind = "Ok" THEN None ELSE Some(ErrorCode(kind)),
     data |-> data, seq |-> 1 - resp.seq]

NoResponse ==
    [op |-> "none", id |-> None, code |-> None, body |-> None, kind |-> "Ok",
     error_code |-> None, data |-> None, seq |-> 0]

\* ----------------------------------------------------------- storage engine

\* Faulty variant of UniqueViolation: the table has no uniqueness constraint.
UniqueViolation_Off(t, code) == FALSE

\* The uniqueness constraint of the table on warehouse_code, scoped to the
\* active rows: does a row with this code violate it?
UniqueViolation(t, code) ==
    \E i \in DOMAIN t : t[i].is_active /\ t[i].warehouse_code = code

\* The columns the INSERT statement leaves to the table: the serial identity
\* and the column defaults.
ColumnDefaults(t, now) ==
    [warehouse_id |-> Len(t) + 1, is_active |-> TRUE,
     created_at |-> Some(now), updated_at |-> Some(now),
     updated_by |-> None]

\* ----------------------------------------------------- WarehouseRepository

\* Faulty variant of create: the email and phone parameters are bound to each
\* other's column.
create_SwapsContact(t, w, now) ==
    IF UniqueViolation(t, w.warehouse_code)
    THEN [ok |-> FALSE, rows |-> t, row |-> None]
    ELSE LET d == ColumnDefaults(t, now)
             row == [warehouse_id |-> d.warehouse_id,
                     warehouse_code |-> w.warehouse_code,
                     warehouse_name |-> w.warehouse_name,
                     warehouse_type |-> w.warehouse_type,
                     address |-> w.address,
                     city |-> w.city,
                     state |-> w.state,
                     postal_code |-> w.postal_code,
                     country |-> IF w.country = None
                                 THEN Some("Indonesia") ELSE w.country,
                     phone |-> w.email,
                     email |-> w.phone,
                     manager_user_id |-> w.manager_user_id,
                     timezone |-> IF w.timezone = None
                                  THEN Some("Asia/Jakarta") ELSE w.timezone,
                     is_active |-> d.is_active,
                     created_at |-> d.created_at,
                     updated_at |-> d.updated_at,
                     created_by |-> Some(1),
                     updated_by |-> d.updated_by]
         IN [ok |-> TRUE, rows |-> Append(t, row), row |-> Some(row)]

\* create: the INSERT ... RETURNING statement.  ok = FALSE is the Err of a
\* statement the storage engine rejected.
create(t, w, now) ==
    IF UniqueViolation(t, w.warehouse_code)
    THEN [ok |-> FALSE, rows |-> t, row |-> None]
    ELSE LET d == ColumnDefaults(t, now)
             row == [warehouse_id |-> d.warehouse_id,
                     warehouse_code |-> w.warehouse_code,
                     warehouse_name |-> w.warehouse_name,
                     warehouse_type |-> w.warehouse_type,
                     address |-> w.address,
                     city |-> w.city,
                     state |-> w.state,
                     postal_code |-> w.postal_code,
                     country |-> IF w.country = None
                                 THEN Some("Indonesia") ELSE w.country,
                     phone |-> w.phone,
                     email |-> w.email,
                     manager_user_id |-> w.manager_user_id,
                     timezone |-> IF w.timezone = None
                                  THEN Some("Asia/Jakarta") ELSE w.timezone,
                     is_active |-> d.is_active,
                     created_at |-> d.created_at,
                     updated_at |-> d.updated_at,
                     created_by |-> Some(1),
                     updated_by |-> d.updated_by]
         IN [ok |-> TRUE, rows |-> Append(t, row), row |-> Some(row)]

\* fetch_optional: the first row of the result set, if any.
FetchOptional(t, matching) ==
    IF matching = {} THEN None
    ELSE Some(t[CHOOSE i \in matching : \A j \in matching : i <= j])

\* Faulty variant of get_by_id: the WHERE clause lacks AND is_active = true.
get_by_id_IgnoresActive(t, id) ==
    FetchOptional(t, {i \in DOMAIN t : t[i].warehouse_id = id})

\* get_by_id: WHERE warehouse_id = $1 AND is_active = true
get_by_id(t, id) ==
    FetchOptional(t, {i \in DOMAIN t :
                        t[i].warehouse_id = id /\ t[i].is_active})

\* get_by_code: WHERE warehouse_code = $1 AND is_active = true
get_by_code(t, code) ==
    FetchOptional(t, {i \in DOMAIN t :
                        t[i].warehouse_code = code /\ t[i].is_active})

\* COALESCE($n, column)
Coalesce(param, column) == IF param # None THEN param ELSE column

\* Faulty variant of UpdateSet: the optional columns are assigned the parameters
\* themselves, without COALESCE.
UpdateSet_NoCoalesce(row, p, now) ==
    [row EXCEPT
        !.warehouse_name = Coalesce(p.warehouse_name, Some(@))[1],
        !.warehouse_type = p.warehouse_type,
        !.address = p.address,
        !.city = p.city,
        !.state = p.state,
        !.country = p.country,
        !.email = p.email,
        !.phone = p.phone,
        !.updated_at = Some(now),
        !.updated_by = Some(1)]

\* Faulty variant of UpdateSet: updated_at and updated_by are not assigned.
UpdateSet_KeepsAudit(row, p, now) ==
    [row EXCEPT
        !.warehouse_name = Coalesce(p.warehouse_name, Some(@))[1],
        !.warehouse_type = Coalesce(p.warehouse_type, @),
        !.address = Coalesce(p.address, @),
        !.city = Coalesce(p.city, @),
        !.state = Coalesce(p.state, @),
        !.country = Coalesce(p.country, @),
        !.email = Coalesce(p.email, @),
        !.phone = Coalesce(p.phone, @)]

\* update: the UPDATE ... SET ... WHERE warehouse_id = $1 AND is_active = true
\* RETURNING * statement.  warehouse_name is NOT NULL, so its COALESCE is
\* unwrapped.
UpdateSet(row, p, now) ==
    [row EXCEPT
        !.warehouse_name = Coalesce(p.warehouse_name, Some(@))[1],
        !.warehouse_type = Coalesce(p.warehouse_type, @),
        !.address = Coalesce(p.address, @),
        !.city = Coalesce(p.city, @),
        !.state = Coalesce(p.state, @),
        !.country = Coalesce(p.country, @),
        !.email = Coalesce(p.email, @),
        !.phone = Coalesce(p.phone, @),
        !.updated_at = Some(now),
        !.updated_by = Some(1)]

\* Faulty variant of update: the WHERE clause lacks AND is_active = true.
update_IgnoresActive(t, id, p, now) ==
    LET hit == {i \in DOMAIN t : t[i].warehouse_id = id}
        t2 == [i \in DOMAIN t |->
                 IF i \in hit THEN UpdateSet(t[i], p, now) ELSE t[i]]
    IN [rows |-> t2, row |-> FetchOptional(t2, hit)]

\* Faulty variant of update: the WHERE clause lacks AND is_active = true and
\* the SET clause has is_active = true.
update_Reactivates(t, id, p, now) ==
    LET hit == {i \in DOMAIN t : t[i].warehouse_id = id}
        t2 == [i \in DOMAIN t |->
                 IF i \in hit
                 THEN [UpdateSet(t[i], p, now) EXCEPT !.is_active = TRUE]
                 ELSE t[i]]
    IN [rows |-> t2, row |-> FetchOptional(t2, hit)]

\* Faulty variant of update: the WHERE clause lacks warehouse_id = $1.
update_EveryRow(t, id, p, now) ==
    LET hit == {i \in DOMAIN t : t[i].is_active}
        t2 == [i \in DOMAIN t |->
                 IF i \in hit THEN UpdateSet(t[i], p, now) ELSE t[i]]
    IN [rows |-> t2,
        row |-> FetchOptional(t2, {i \in hit : t[i].warehouse_id = id})]

update(t, id, p, now) ==
    LET hit == {i \in DOMAIN t : t[i].warehouse_id = id /\ t[i].is_active}
        t2 == [i \in DOMAIN t |->
                 IF i \in hit THEN UpdateSet(t[i], p, now) ELSE t[i]]
    IN [rows |-> t2, row |-> FetchOptional(t2, hit)]

\* Faulty variant of delete: the WHERE clause lacks AND is_active = true.
delete_IgnoresActive(t, id, now) ==
    LET hit == {i \in DOMAIN t : t[i].warehouse_id = id}
    IN [rows |-> [i \in DOMAIN t |->
                    IF i \in hit
                    THEN [t[i] EXCEPT !.is_active = FALSE,
                                      !.updated_at = Some(now),
                                      !.updated_by = Some(1)]
                    ELSE t[i]],
        affected |-> hit # {}]

\* Faulty variant of delete: DELETE FROM instead of the soft delete.
delete_Physical(t, id, now) ==
    LET Hit(x) == x.warehouse_id = id /\ x.is_active
    IN [rows |-> SelectSeq(t, LAMBDA x : ~Hit(x)),
        affected |-> \E i \in DOMAIN t : Hit(t[i])]

\* delete: UPDATE ... SET is_active = false, updated_at = NOW(),
\* updated_by = $2 WHERE warehouse_id = $1 AND is_active = true;
\* returns rows_affected() > 0.
delete(t, id, now) ==
    LET hit == {i \in DOMAIN t : t[i].warehouse_id = id /\ t[i].is_active}
    IN [rows |-> [i \in DOMAIN t |->
                    IF i \in hit
                    THEN [t[i] EXCEPT !.is_active = FALSE,
                                      !.updated_at = Some(now),
                                      !.updated_by = Some(1)]
                    ELSE t[i]],
        affected |-> hit # {}]

\* Faulty variant of code_exists: neither query has AND is_active = true.
code_exists_IgnoresActive(t, code, exclude_id) ==
    IF exclude_id # None
    THEN \E i \in DOMAIN t :
            /\ t[i].warehouse_code = code
            /\ t[i].warehouse_id # exclude_id[1]
    ELSE \E i \in DOMAIN t : t[i].warehouse_code = code

\* Faulty variant of code_exists: the Some(id) query lacks AND warehouse_id != $2.
code_exists_IgnoresExclude(t, code, exclude_id) ==
    \E i \in DOMAIN t : t[i].warehouse_code = code /\ t[i].is_active

\* code_exists: SELECT EXISTS(... WHERE warehouse_code = $1
\* [AND warehouse_id != $2] AND is_active = true)
code_exists(t, code, exclude_id) ==
    IF exclude_id # None
    THEN \E i \in DOMAIN t :
            /\ t[i].warehouse_code = code
            /\ t[i].warehouse_id # exclude_id[1]
            /\ t[i].is_active
    ELSE \E i \in DOMAIN t :
            t[i].warehouse_code = code /\ t[i].is_active

\* ----------------------------------------------------------------- handlers

Init ==
    /\ rows = << >>
    /\ inflight = [r \in Reqs |-> None]
    /\ resp = NoResponse
    /\ clock = 0
    /\ listing = None
    /\ in_use = 0

\* Faulty variant of create_warehouse_check: the handler omits the code_exists
\* pre-check.
create_warehouse_check_NoPrecheck(r, w) ==
    /\ inflight[r] = None
    /\ UNCHANGED <<rows, clock, listing, in_use>>
    /\ IF ~ValidateCreate(w)
       THEN /\ resp' = Response("create", None, Some(w.warehouse_code), Some(w),
                                "Validation", None)
            /\ UNCHANGED inflight
       ELSE /\ inflight' = [inflight EXCEPT ![r] = Some(w)]
            /\ UNCHANGED resp

\* Faulty variant of create_warehouse_check: the handler runs the code_exists
\* pre-check before it validates the payload.
create_warehouse_check_PrecheckFirst(r, w) ==
    /\ inflight[r] = None
    /\ UNCHANGED <<rows, clock, listing, in_use>>
    /\ IF code_exists(rows, w.warehouse_code, None)
       THEN /\ resp' = Response("create", None, Some(w.warehouse_code), Some(w),
                                "AlreadyExists", None)
            /\ UNCHANGED inflight
       ELSE IF ~ValidateCreate(w)
       THEN /\ resp' = Response("create", None, Some(w.warehouse_code), Some(w),
                                "Validation", None)
            /\ UNCHANGED inflight
       ELSE /\ inflight' = [inflight EXCEPT ![r] = Some(w)]
            /\ UNCHANGED resp

\* create_warehouse, up to and including the pre-check: validate the payload,
\* then code_exists(code, None).  A payload that passes both waits in
\* inflight[r] for its INSERT.
create_warehouse_check(r, w) ==
    /\ inflight[r] = None
    /\ UNCHANGED <<rows, clock, listing, in_use>>
    /\ IF ~ValidateCreate(w)
       THEN /\ resp' = Response("create", None, Some(w.warehouse_code), Some(w),
                                "Validation", None)
            /\ UNCHANGED inflight
       ELSE IF code_exists(rows, w.warehouse_code, None)
       THEN /\ resp' = Response("create", None, Some(w.warehouse_code), Some(w),
                                "AlreadyExists", None)
            /\ UNCHANGED inflight
       ELSE /\ inflight' = [inflight EXCEPT ![r] = Some(w)]
            /\ UNCHANGED resp

\* create_warehouse, the INSERT and the response.
create_warehouse_insert(r) ==
    /\ inflight[r] # None
    /\ LET w == inflight[r][1]
           res == create(rows, w, clock)
       IN /\ Len(res.rows) <= MaxRows
          /\ rows' = res.rows
          /\ resp' = Response("create", None, Some(w.warehouse_code), Some(w),
                              IF res.ok THEN "Ok" ELSE AppErrorFromRepository,
                              res.row)
    /\ inflight' = [inflight EXCEPT ![r] = None]
    /\ UNCHANGED <<clock, listing, in_use>>

\* get_warehouse
get_warehouse(id) ==
    /\ LET got == get_by_id(rows, id)
       IN resp' = Response("get", Some(id), None, None,
                           IF got # None THEN "Ok" ELSE "NotFound", got)
    /\ UNCHANGED <<rows, inflight, clock, listing, in_use>>

\* update_warehouse
update_warehouse(id, body) ==
    LET payload == UpdateWarehouse(body)
    IN IF ~ValidateUpdate(payload)
       THEN /\ resp' = Response("update", Some(id), None, Some(body),
                                "Validation", None)
            /\ UNCHANGED <<rows, inflight, clock, listing, in_use>>
       ELSE LET res == update(rows, id, payload, clock)
            IN /\ rows' = res.rows
               /\ resp' = Response("update", Some(id), None, Some(body),
                                   IF res.row # None THEN "Ok" ELSE "NotFound",
                                   res.row)
               /\ UNCHANGED <<inflight, clock, listing, in_use>>

\* Faulty variant of delete_warehouse: the handler answers success whether or
\* not a row was deactivated.
delete_warehouse_IgnoresAffected(id) ==
    LET res == delete(rows, id, clock)
    IN /\ rows' = res.rows
       /\ resp' = Response("delete", Some(id), None, None, "Ok",
                           Some(res.affected))
       /\ UNCHANGED <<inflight, clock, listing, in_use>>

\* delete_warehouse
delete_warehouse(id) ==
    LET res == delete(rows, id, clock)
    IN /\ rows' = res.rows
       /\ resp' = Response("delete", Some(id), None, None,
                           IF res.affected THEN "Ok" ELSE "NotFound",
                           Some(res.affected))
       /\ UNCHANGED <<inflight, clock, listing, in_use>>

\* A direct call of WarehouseRepository::get_by_code (no handler routes to it).
call_get_by_code(code) ==
    /\ resp' = Response("get_by_code", None, Some(code), None, "Ok",
                        get_by_code(rows, code))
    /\ UNCHANGED <<rows, inflight, clock, listing, in_use>>

\* A direct call of WarehouseRepository::code_exists with an exclude_id.
call_code_exists(code, exclude_id) ==
    /\ resp' = Response("code_exists", exclude_id, Some(code), None, "Ok",
                        Some(code_exists(rows, code, exclude_id)))
    /\ UNCHANGED <<rows, inflight, clock, listing, in_use>>

\* The request bodies of update requests: no key, a name that fails
\* validation, and a warehouse_code.
UpdateBodies ==
    {EmptyBody,
     [EmptyBody EXCEPT !.warehouse_name = JsonVal("")],
     [EmptyBody EXCEPT !.warehouse_code = JsonVal("WH-01")]}

Next ==
    \/ \E r \in Reqs, c \in CreateCodes :
          create_warehouse_check(r, CreatePayload(c))
    \/ \E r \in Reqs : create_warehouse_insert(r)
    \/ \E id \in Ids : get_warehouse(id)
    \/ \E id \in Ids, b \in UpdateBodies : update_warehouse(id, b)
    \/ \E id \in Ids : delete_warehouse(id)
    \/ \E c \in Codes : call_get_by_code(c)
    \/ \E c \in Codes, x \in {None} \cup {Some(i) : i \in Ids} :
          call_code_exists(c, x)

Spec == Init /\ [][Next]_vars

\* A create payload with a code of the table and an email that fails
\* validation.
InvalidEmailPayload(code) ==
    [CreatePayload(code) EXCEPT !.email = Some("not-an-email")]

\* The requests of Next and create requests with such a payload.
NextValidate ==
    \/ Next
    \/ \E r \in Reqs : create_warehouse_check(r, InvalidEmailPayload("WH-01"))

SpecValidate == Init /\ [][NextValidate]_vars

\* ------------------------------------------- the merge of a partial update

\* The storage clock may advance to here.
MaxClock == 2

\* Time passes.
Tick ==
    /\ clock < MaxClock
    /\ clock' = clock + 1
    /\ UNCHANGED <<rows, inflight, resp, listing, in_use>>

\* A create payload that supplies every optional field.
FullPayload ==
    [warehouse_code |-> "WH-01", warehouse_name |-> "Central",
     warehouse_type |-> Some("MAIN"), address |-> Some("Jl. Sudirman 1"),
     city |-> Some("Jakarta"), state |-> Some("DKI"),
     postal_code |-> Some("10110"), country |-> Some("Indonesia"),
     email |-> Some("ops@example.com"), phone |-> Some("021-555"),
     manager_user_id |-> Some(7), timezone |-> Some("Asia/Jakarta")]

\* The value a patch carries for a key; each differs from the stored one and
\* passes UpdateWarehouse::validate.
PatchValue(k) ==
    CASE k = "warehouse_name" -> "Renamed"
      [] k = "email" -> "ops@example.com"
      [] k = "phone" -> "022-777"
      [] k = "manager_user_id" -> 9
      [] k = "postal_code" -> "40111"
      [] k = "timezone" -> "Asia/Makassar"
      [] k = "city" -> "Bandung"
      [] OTHER -> "patched"

\* Request bodies that carry exactly the keys of a set.
BodyWith(keys) ==
    [k \in BodyKeys |-> IF k \in keys THEN JsonVal(PatchValue(k)) ELSE Absent]

\* The keys of UpdateWarehouse whose column admits NULL (warehouse_name is
\* a String in Warehouse, every other one an Option).
NullableKeys == UpdateKeys \ {"warehouse_name"}

\* Request bodies that carry an explicit null for exactly the keys of a set.
NullBody(keys) ==
    [k \in BodyKeys |-> IF k \in keys THEN JsonNull ELSE Absent]

\* The bodies of the merge: no key, every key, every key but one,
\* warehouse_name alone, and a null for city alone and for every nullable key.
MergeBodies ==
    {BodyWith({}), BodyWith(UpdateKeys), BodyWith({"warehouse_name"})}
        \cup {BodyWith(UpdateKeys \ {k}) : k \in UpdateKeys}
        \cup {NullBody({"city"}), NullBody(NullableKeys)}

\* One stored record, created at time 0 from either payload.
InitMerge ==
    /\ rows \in {create(<< >>, w, 0).rows :
                    w \in {CreatePayload("WH-01"), FullPayload}}
    /\ inflight = [r \in Reqs |-> None]
    /\ resp = NoResponse
    /\ clock = 0
    /\ listing = None
    /\ in_use = 0

NextMerge ==
    \/ \E id \in Ids, b \in MergeBodies : update_warehouse(id, b)
    \/ \E id \in Ids : delete_warehouse(id)
    \/ \E id \in Ids : get_warehouse(id)
    \/ Tick

SpecMerge == InitMerge /\ [][NextMerge]_vars

\* ------------------------------------------------- create, then read back
\*
\* Creation with payloads that supply few, all, or other than the default
\* values of the optional fields, and reads of the ids created.

CreatePayloads ==
    {CreatePayload("WH-01"),
     FullPayload,
     [FullPayload EXCEPT !.warehouse_code = "WH-02",
                         !.country = Some("Singapore"),
                         !.timezone = Some("Asia/Singapore"),
                         !.email = None],
     [CreatePayload("WH-02") EXCEPT !.warehouse_name = "East",
                                    !.phone = Some("021-555")]}

NextCreate ==
    \/ \E r \in Reqs, w \in CreatePayloads : create_warehouse_check(r, w)
    \/ \E r \in Reqs : create_warehouse_insert(r)
    \/ \E id \in Ids : get_warehouse(id)
    \/ Tick

SpecCreate == Init /\ [][NextCreate]_vars

\* ------------------------------------------------------- i64 arithmetic
\*
\* page, limit and offset are i64.  A magnitude is held exactly, as limbs of
\* 13 bits, least significant first: five limbs cover 65 bits, and a product
\* of two magnitudes has ten.  An i64 is a sign and a five-limb magnitude.

LimbBase == 8192
LimbCount == 5

\* The magnitude of a natural below LimbBase * LimbBase.
Mag(n) == <<n % LimbBase, n \div LimbBase, 0, 0, 0>>

\* i64 values: small ones from their integer, and the two ends of the range.
I64(n) == [neg |-> n < 0, mag |-> Mag(IF n < 0 THEN -n ELSE n)]
I64_MAX == [neg |-> FALSE, mag |-> <<8191, 8191, 8191, 8191, 2047>>]
I64_MIN == [neg |-> TRUE, mag |-> <<0, 0, 0, 0, 2048>>]

\* Magnitudes compared from the most significant limb down.
MagLt(a, b) ==
    \E i \in 1..LimbCount :
        /\ a[i] < b[i]
        /\ \A j \in (i + 1)..LimbCount : a[j] = b[j]

\* x < y on i64.
I64Lt(x, y) ==
    IF x.neg # y.neg THEN x.neg
    ELSE IF x.neg THEN MagLt(y.mag, x.mag)
    ELSE MagLt(x.mag, y.mag)

\* i64::max and i64::min.
I64Max(x, y) == IF I64Lt(x, y) THEN y ELSE x
I64Min(x, y) == IF I64Lt(y, x) THEN y ELSE x

\* The integer of an i64 whose two low limbs hold all of its magnitude.
IsSmall(x) == \A i \in 3..LimbCount : x.mag[i] = 0
ToInt(x) ==
    LET n == x.mag[1] + LimbBase * x.mag[2] IN IF x.neg THEN -n ELSE n

\* a - 1 for a magnitude above zero: borrow through the low zero limbs.
RECURSIVE Borrow(_, _)
Borrow(a, i) ==
    IF a[i] > 0 THEN <<a[i] - 1>> \o SubSeq(a, i + 1, Len(a))
    ELSE <<LimbBase - 1>> \o Borrow(a, i + 1)

MagPred(a) == Borrow(a, 1)

\* Carry propagation over a sequence of column sums, from limb i on.
RECURSIVE Carry(_, _, _)
Carry(c, i, carry) ==
    IF i > Len(c) THEN << >>
    ELSE LET v == c[i] + carry
         IN <<v % LimbBase>> \o Carry(c, i + 1, v \div LimbBase)

RECURSIVE ColumnSum(_, _, _, _)
ColumnSum(a, b, k, i) ==
    IF i > LimbCount THEN 0
    ELSE (IF k - i + 1 \in 1..LimbCount THEN a[i] * b[k - i + 1] ELSE 0)
             + ColumnSum(a, b, k, i + 1)

RECURSIVE Columns(_, _, _)
Columns(a, b, k) ==
    IF k > 2 * LimbCount THEN << >>
    ELSE <<ColumnSum(a, b, k, 1)>> \o Columns(a, b, k + 1)

\* The exact product of two magnitudes, in 2 * LimbCount limbs.
MagMul(a, b) == Carry(Columns(a, b, 1), 1, 0)

\* Does a ten-limb product fit an i64 (is it below 2^63)?
FitsI64(p) ==
    /\ \A i \in (LimbCount + 1)..(2 * LimbCount) : p[i] = 0
    /\ p[LimbCount] < 2048

\* The limbs of 2^64 - 1 - a, from limb i on.
RECURSIVE Complement(_, _)
Complement(a, i) ==
    IF i > LimbCount THEN << >>
    ELSE <<(IF i = LimbCount THEN 4095 ELSE LimbBase - 1) - a[i]>>
             \o Complement(a, i + 1)

\* The i64 that the low 64 bits of a product are in two's complement: what a
\* wrapping multiplication yields.
WrapI64(p) ==
    LET low == SubSeq(p, 1, LimbCount - 1) \o <<p[LimbCount] % 4096>>
    IN IF low[LimbCount] < 2048
       THEN [neg |-> FALSE, mag |-> low]
       ELSE [neg |-> TRUE, mag |-> Carry(Complement(low, 1), 1, 1)]

\* ------------------------------------------------------------ pagination

\* struct PaginationQuery, as deserialized from the query string.
PaginationQuery(page, limit, search, sort_by, sort_order) ==
    [page |-> page, limit |-> limit, search |-> search,
     sort_by |-> sort_by, sort_order |-> sort_order]

\* Option::unwrap_or
unwrap_or(o, default) == IF o = None THEN default ELSE o[1]

\* Faulty variant of validate_pagination: limit has no upper clamp.
validate_pagination_NoCap(query) ==
    LET page == I64Max(unwrap_or(query.page, I64(1)), I64(1))
        limit == I64Max(unwrap_or(query.limit, I64(20)), I64(1))
    IN <<page, limit>>

validate_pagination(query) ==
    LET page == I64Max(unwrap_or(query.page, I64(1)), I64(1))
        limit == I64Min(I64Max(unwrap_or(query.limit, I64(20)), I64(1)),
                        I64(100))
    IN <<page, limit>>

\* (page.max(1) - 1) * limit.max(1).  The subtraction cannot leave the i64
\* range; the multiplication can.  On overflow a build with overflow checks
\* panics and one without them wraps, so the result is one of the outcomes
\* <<"panic">> and <<"value", v>>.
calculate_offset(page, limit) ==
    LET p == MagMul(MagPred(I64Max(page, I64(1)).mag),
                    I64Max(limit, I64(1)).mag)
    IN IF FitsI64(p)
       THEN {<<"value", [neg |-> FALSE, mag |-> SubSeq(p, 1, LimbCount)]>>}
       ELSE {<<"panic">>, <<"value", WrapI64(p)>>}

\* Integer division of i64: the quotient is truncated toward zero.
TruncDiv(a, b) == IF a >= 0 THEN a \div b ELSE -((-a) \div b)

\* calculate_total_pages; total is a row count, far inside the i64 range,
\* and is held as an integer, and so is limit when it is positive.
calculate_total_pages(total, limit) ==
    IF ~I64Lt(I64(0), limit) THEN 0
    ELSE TruncDiv(total + ToInt(limit) - 1, ToInt(limit))

\* Faulty variant of PaginationMeta: total_pages is the truncated quotient.
PaginationMeta_Floor(total, page, limit) ==
    LET total_pages == IF I64Lt(I64(0), limit)
                       THEN TruncDiv(total, ToInt(limit))
                       ELSE 0
    IN [total |-> total, page |-> page, limit |-> limit,
        total_pages |-> total_pages,
        has_next |-> I64Lt(page, I64(total_pages)),
        has_prev |-> I64Lt(I64(1), page)]

\* PaginationMeta::new
PaginationMeta(total, page, limit) ==
    LET total_pages == IF I64Lt(I64(0), limit)
                       THEN TruncDiv(total + ToInt(limit) - 1, ToInt(limit))
                       ELSE 0
    IN [total |-> total, page |-> page, limit |-> limit,
        total_pages |-> total_pages,
        has_next |-> I64Lt(page, I64(total_pages)),
        has_prev |-> I64Lt(I64(1), page)]

\* PaginatedResponse::new
PaginatedResponse(data, total, page, limit) ==
    [data |-> data, pagination |-> PaginationMeta(total, page, limit)]

\* ------------------------------------------------------------------ list

\* The collation order of the warehouse names in use.
NameRank(name) ==
    CASE name = "Alpha" -> 1
      [] name = "Bravo" -> 2
      [] name = "Central" -> 3
      [] name = "Charlie" -> 4
      [] name = "East" -> 5
      [] name = "Renamed" -> 6

\* SELECT COUNT(*) FROM warehouse.warehouses WHERE is_active = true
list_count(t) == Cardinality({i \in DOMAIN t : t[i].is_active})

\* The orders in which ORDER BY warehouse_name may deliver the active rows:
\* every arrangement that is ascending in the name; rows with equal names
\* come in either order.
OrderByName(t) ==
    LET active == {i \in DOMAIN t : t[i].is_active}
        n == Cardinality(active)
    IN {f \in [1..n -> active] :
          /\ \A j, k \in 1..n : j # k => f[j] # f[k]
          /\ \A j \in 1..(n - 1) :
                NameRank(t[f[j]].warehouse_name)
                    <= NameRank(t[f[j + 1]].warehouse_name)}

\* Faulty variant of list_rows: the statement has no WHERE is_active = true.
list_rows_IgnoresActive(t, limit, offset) ==
    LET n == Len(t)
        off == IF IsSmall(offset) THEN ToInt(offset) ELSE n
        rest == IF n - off > 0 THEN n - off ELSE 0
        cnt == IF ToInt(limit) < rest THEN ToInt(limit) ELSE rest
    IN {[j \in 1..cnt |-> t[f[off + j]]] :
           f \in {g \in [1..n -> 1..n] :
                    /\ \A j, k \in 1..n : j # k => g[j] # g[k]
                    /\ \A j \in 1..(n - 1) :
                          NameRank(t[g[j]].warehouse_name)
                              <= NameRank(t[g[j + 1]].warehouse_name)}}

\* SELECT ... WHERE is_active = true ORDER BY warehouse_name LIMIT $1
\* OFFSET $2, for an offset that is not negative: the result sets the
\* statement may return.  search, sort_by and sort_order are not part of it.
list_rows(t, limit, offset) ==
    LET n == list_count(t)
        off == IF IsSmall(offset) THEN ToInt(offset) ELSE n
        rest == IF n - off > 0 THEN n - off ELSE 0
        cnt == IF ToInt(limit) < rest THEN ToInt(limit) ELSE rest
    IN {[j \in 1..cnt |-> t[f[off + j]]] : f \in OrderByName(t)}

\* A request whose task panicked: the connection closes without a response.
Aborted(op, query) ==
    [op |-> op, id |-> None, code |-> None, body |-> Some(query),
     kind |-> "Panic", error_code |-> None, data |-> None,
     seq |-> 1 - resp.seq]

\* list_warehouses, up to and including the COUNT query: validate_pagination,
\* calculate_offset, then the count.
list_warehouses_count(query) ==
    /\ listing = None
    /\ in_use = 0
    /\ LET vp == validate_pagination(query)
       IN \E o \in calculate_offset(vp[1], vp[2]) :
             IF o[1] = "panic"
             THEN /\ resp' = Aborted("list", query)
                  /\ UNCHANGED listing
             ELSE /\ listing' = Some([query |-> query, page |-> vp[1],
                                      limit |-> vp[2], offset |-> o[2],
                                      total |-> list_count(rows)])
                  /\ UNCHANGED resp
    /\ UNCHANGED <<rows, inflight, clock, in_use>>

\* list_warehouses, the data query and the response.  The storage engine
\* rejects a negative OFFSET.
list_warehouses_rows ==
    /\ listing # None
    /\ LET l == listing[1]
       IN IF l.offset.neg
          THEN resp' = Response("list", None, None, Some(l.query),
                                AppErrorFromRepository, None)
          ELSE \E data \in list_rows(rows, l.limit, l.offset) :
                  resp' = Response("list", None, None, Some(l.query), "Ok",
                                   Some(PaginatedResponse(data, l.total,
                                                          l.page, l.limit)))
    /\ listing' = None
    /\ UNCHANGED <<rows, inflight, clock, in_use>>

\* The stored records of the list runs.
MaxListRows == 3

ListName(i) ==
    CASE i % 4 = 1 -> "Bravo"
      [] i % 4 = 2 -> "Alpha"
      [] i % 4 = 3 -> "Bravo"
      [] i % 4 = 0 -> "Charlie"

ListPayload(i) ==
    [CreatePayload("WH-0" \o ToString(i)) EXCEPT
        !.warehouse_name = ListName(i)]

\* The table after the first n payloads were created.
RECURSIVE CreateAll(_)
CreateAll(n) ==
    IF n = 0 THEN << >>
    ELSE create(CreateAll(n - 1), ListPayload(n), 0).rows

\* Tables of up to MaxListRows records, none or one of them deleted.
ListTables ==
    {CreateAll(n) : n \in 0..MaxListRows}
        \cup {delete(CreateAll(n), d, 0).rows :
                 n \in 1..MaxListRows, d \in 1..MaxListRows}

\* A page that overflows the offset to zero: 2^62 + 1.
PageWrapsToZero == [neg |-> FALSE, mag |-> <<1, 0, 0, 0, 1024>>]

\* A query with page and limit alone.
PageLimit(page, limit) == PaginationQuery(page, limit, None, None, None)

\* The queries: small pages and limits, the ends of the i64 range for each,
\* and search and sort parameters.
ListQueries ==
    {PageLimit(p, l) :
        p \in {None, Some(I64(0)), Some(I64(1)), Some(I64(2)),
               Some(I64_MIN)},
        l \in {None, Some(I64(1)), Some(I64(2))}}
    \cup {PageLimit(p, l) :
            p \in {Some(I64_MAX), Some(PageWrapsToZero)},
            l \in {None, Some(I64(1)), Some(I64(100))}}
    \cup {PageLimit(None, l) :
            l \in {Some(I64(0)), Some(I64_MIN), Some(I64(100)),
                   Some(I64(101)), Some(I64_MAX)}}
    \cup {PageLimit(Some(I64(3)), Some(I64(1)))}
    \cup {PaginationQuery(None, None, Some("bra"), None, None),
          PaginationQuery(None, None, Some("zzz"), None, None),
          PaginationQuery(None, None, None, Some("code"), None),
          PaginationQuery(None, None, None, Some("name"), Some("desc")),
          PaginationQuery(None, None, None, Some("bogus"), Some("DESC")),
          PaginationQuery(None, None, None, None, Some("bogus"))}

InitList ==
    /\ rows \in ListTables
    /\ inflight = [r \in Reqs |-> None]
    /\ resp = NoResponse
    /\ clock = 0
    /\ listing = None
    /\ in_use = 0

NextList ==
    \/ \E q \in ListQueries : list_warehouses_count(q)
    \/ list_warehouses_rows

SpecList == InitList /\ [][NextList]_vars

\* ------------------------------------------------- pagination metadata
\*
\* PaginationMeta::new and calculate_total_pages called on their own, with
\* totals that are row counts and pages and limits from the whole i64 range.

MaxTotal == 7

MetaTotals == 0..MaxTotal \cup {99, 100, 101, 200}
MetaPages == {I64(1), I64(2), I64(3), I64(101), I64_MAX}
MetaLimits ==
    {I64(1), I64(2), I64(3), I64(20), I64(100), I64(0), I64(-1), I64_MIN}

call_pagination_meta(total, page, limit) ==
    /\ resp' = Response("pagination_meta", None, None,
                        Some([total |-> total, page |-> page,
                              limit |-> limit]),
                        "Ok",
                        Some([meta |-> PaginationMeta(total, page, limit),
                              total_pages |->
                                  calculate_total_pages(total, limit)]))
    /\ UNCHANGED <<rows, inflight, clock, listing, in_use>>

NextMeta ==
    \E total \in MetaTotals, page \in MetaPages, limit \in MetaLimits :
        call_pagination_meta(total, page, limit)

SpecMeta == Init /\ [][NextMeta]_vars

\* --------------------------------------------------------------- offset
\*
\* calculate_offset called on its own, with pages and limits from the whole
\* i64 range.

OffsetPages ==
    {I64_MIN, I64(-1), I64(0), I64(1), I64(2), I64(3), I64(50),
     PageWrapsToZero, I64_MAX}
OffsetLimits ==
    {I64_MIN, I64(-1), I64(0), I64(1), I64(2), I64(20), I64(100), I64(101),
     I64_MAX}

call_calculate_offset(page, limit) ==
    /\ \E o \in calculate_offset(page, limit) :
          resp' = Response("calculate_offset", None, None,
                           Some([page |-> page, limit |-> limit]), "Ok",
                           Some(o))
    /\ UNCHANGED <<rows, inflight, clock, listing, in_use>>

NextOffset ==
    \E page \in OffsetPages, limit \in OffsetLimits :
        call_calculate_offset(page, limit)

SpecOffset == Init /\ [][NextOffset]_vars

\* ------------------------------------------------------- error rendering

\* The variants of AppError.
ErrorKinds ==
    {"Database", "Validation", "NotFound", "AlreadyExists", "Unauthorized",
     "Forbidden", "Config", "ExternalService", "Internal"}

\* An AppError: its variant and the text the variant carries (the source
\* error of Database and Internal, msg, resource, reason, message).
AppError(kind, detail) == [kind |-> kind, detail |-> detail]

\* AppError::into_response: the HTTP status of each kind.
StatusCode(kind) ==
    CASE kind \in {"Database", "Config", "Internal"} -> 500
      [] kind = "Validation" -> 400
      [] kind = "NotFound" -> 404
      [] kind = "AlreadyExists" -> 409
      [] kind = "Unauthorized" -> 401
      [] kind = "Forbidden" -> 403
      [] kind = "ExternalService" -> 502

\* AppError::into_response: the message of the error object.
ErrorMessage(err) ==
    CASE err.kind = "Database" -> "Database error occurred"
      [] err.kind = "Validation" -> err.detail
      [] err.kind = "NotFound" -> err.detail \o " not found"
      [] err.kind = "AlreadyExists" -> err.detail \o " already exists"
      [] err.kind = "Unauthorized" -> "Unauthorized access"
      [] err.kind = "Forbidden" -> err.detail
      [] err.kind = "Config" -> "Configuration error"
      [] err.kind = "ExternalService" -> "External service error"
      [] err.kind = "Internal" -> "Internal server error"

\* AppError::into_response
into_response(err, now) ==
    [status |-> StatusCode(err.kind),
     body |-> [success |-> FALSE,
               error |-> [code |-> ErrorCode(err.kind),
                          message |-> ErrorMessage(err),
                          timestamp |-> now]]]

\* Texts an AppError may carry.
ErrorDetails ==
    {"warehouse", "warehouse with this code", "warehouse_name: length",
     "pool timed out while waiting for an open connection",
     "relation \"warehouse.warehouses\" does not exist",
     "connection refused", "inventory"}

AppErrors ==
    {AppError(k, d) : k \in ErrorKinds \ {"Unauthorized"}, d \in ErrorDetails}
        \cup {AppError("Unauthorized", "")}

\* AppError::into_response called on its own.
call_into_response(err) ==
    /\ resp' = Response("into_response", None, None, Some(err), "Ok",
                        Some(into_response(err, clock)))
    /\ UNCHANGED <<rows, inflight, clock, listing, in_use>>

NextError ==
    \/ \E err \in AppErrors : call_into_response(err)
    \/ Tick

SpecError == Init /\ [][NextError]_vars

\* ------------------------------------------------------ connection pool
\*
\* Every statement of a repository method runs on the pool (&self.pool): it
\* checks a connection out, or fails when none comes free within the acquire
\* timeout, runs, and gives the connection back when the statement's future
\* ends, with a row or with an error.  Here a request is the sequence of its
\* statements; what the statements read and write is left out.

\* Connections the pool may have checked out at a time.
PoolSize == 1

\* The statements of each handler, in the order it issues them.
Statements ==
    [list |-> <<"count", "select">>,
     get |-> <<"select">>,
     create |-> <<"code_exists", "insert">>,
     update |-> <<"update">>,
     delete |-> <<"update is_active">>,
     health |-> <<"select 1">>]

PoolOps == DOMAIN Statements

\* The handlers that answer through ApiResponse and AppError.
EnvelopeOps == PoolOps \ {"health"}

\* The texts of the storage errors of a statement, and of PoolTimedOut.
StorageDetails ==
    {"connection refused",
     "relation \"warehouse.warehouses\" does not exist"}
PoolTimedOut == "pool timed out while waiting for an open connection"

\* ApiResponse::success and ApiResponse::success_with_message
ApiResponse_success(data, now) ==
    [success |-> TRUE, data |-> Some(data), message |-> None,
     timestamp |-> now]
ApiResponse_success_with_message(data, message, now) ==
    [success |-> TRUE, data |-> Some(data), message |-> Some(message),
     timestamp |-> now]

\* The body a handler sends for the result of its last statement.
SuccessBody(op, now) ==
    CASE op \in {"list", "get"} -> ApiResponse_success("result", now)
      [] op = "create" ->
            ApiResponse_success_with_message(
                "result", "Warehouse created successfully", now)
      [] op = "update" ->
            ApiResponse_success_with_message(
                "result", "Warehouse updated successfully", now)
      [] op = "delete" ->
            ApiResponse_success_with_message(
                "Warehouse deleted successfully", "Operation completed", now)

\* Faulty variant of HealthStatus: the overall status ignores the database.
HealthStatus_AlwaysHealthy(probe, now) ==
    LET database ==
            IF probe = <<"ok", TRUE>>
            THEN [status |-> "healthy", response_time_ms |-> Some(0),
                  error |-> None]
            ELSE IF probe = <<"ok", FALSE>>
            THEN [status |-> "unhealthy", response_time_ms |-> Some(0),
                  error |-> Some("Database check returned false")]
            ELSE [status |-> "error", response_time_ms |-> Some(0),
                  error |-> Some(probe[2])]
        redis == [status |-> "healthy", response_time_ms |-> Some(1),
                  error |-> None]
    IN [status |-> "healthy",
        timestamp |-> now, version |-> "version",
        services |-> [database |-> database, redis |-> redis],
        uptime |-> "unknown"]

\* health: the HealthStatus built from the result of Database::health_check,
\* <<"ok", b>> for Ok(b) and <<"err", text>> for Err(e) with e.to_string().
HealthStatus(probe, now) ==
    LET database ==
            IF probe = <<"ok", TRUE>>
            THEN [status |-> "healthy", response_time_ms |-> Some(0),
                  error |-> None]
            ELSE IF probe = <<"ok", FALSE>>
            THEN [status |-> "unhealthy", response_time_ms |-> Some(0),
                  error |-> Some("Database check returned false")]
            ELSE [status |-> "error", response_time_ms |-> Some(0),
                  error |-> Some(probe[2])]
        redis == [status |-> "healthy", response_time_ms |-> Some(1),
                  error |-> None]
    IN [status |-> IF database.status = "healthy"
                      /\ redis.status = "healthy"
                   THEN "healthy" ELSE "unhealthy",
        timestamp |-> now, version |-> "version",
        services |-> [database |-> database, redis |-> redis],
        uptime |-> "unknown"]

\* The response of a request of the pool runs: a Response with the result
\* of the statement that ended it (cause) and the body sent (sent).
PoolResponse(op, kind, cause, sent) ==
    [cause |-> cause, sent |-> sent]
        @@ Response(op, None, None, None, kind, None)

\* The response to a request one of whose statements, or whose acquire,
\* failed with a storage error of the given text.
StorageFailure(op, text) ==
    IF op = "health"
    THEN PoolResponse(op, "Ok", <<"err", text>>,
                      HealthStatus(<<"err", text>>, clock))
    ELSE PoolResponse(op, AppErrorFromRepository, <<"err", text>>,
                      into_response(AppError(AppErrorFromRepository, text),
                                    clock).body)

\* Faulty variant of Release: the connection is never given back.
Release_Keeps(n, failed) == n

\* Faulty variant of Release: a statement that failed keeps its connection.
Release_LeakOnError(n, failed) == IF failed THEN n ELSE n - 1

\* The pool's count after a statement's connection is dropped.
Release(n, failed) == n - 1

\* A request arrives.
pool_begin(r, op) ==
    /\ inflight[r] = None
    /\ inflight' = [inflight EXCEPT
                       ![r] = Some([op |-> op, next |-> 1, conn |-> FALSE])]
    /\ UNCHANGED <<rows, resp, clock, listing, in_use>>

\* The next statement of request r checks a connection out.
pool_acquire(r) ==
    /\ inflight[r] # None
    /\ ~inflight[r][1].conn
    /\ in_use < PoolSize
    /\ in_use' = in_use + 1
    /\ inflight' = [inflight EXCEPT ![r] = Some([@[1] EXCEPT !.conn = TRUE])]
    /\ UNCHANGED <<rows, resp, clock, listing>>

\* Faulty variant of pool_acquire_timeout: acquire waits without a limit.
pool_acquire_timeout_Never(r) == FALSE /\ UNCHANGED vars

\* No connection came free within the acquire timeout: the statement fails
\* with PoolTimedOut and the request ends.
pool_acquire_timeout(r) ==
    /\ inflight[r] # None
    /\ ~inflight[r][1].conn
    /\ in_use >= PoolSize
    /\ resp' = StorageFailure(inflight[r][1].op, PoolTimedOut)
    /\ inflight' = [inflight EXCEPT ![r] = None]
    /\ UNCHANGED <<rows, clock, listing, in_use>>

\* The statement of request r that holds a connection ends, with a result
\* <<"ok", b>> or an error <<"err", text>>, and its connection is dropped.
\* An error ends the request; so does the result of the last statement.
pool_execute(r, result) ==
    /\ inflight[r] # None
    /\ inflight[r][1].conn
    /\ in_use' = Release(in_use, result[1] = "err")
    /\ LET op == inflight[r][1].op
           last == inflight[r][1].next = Len(Statements[op])
       IN IF result[1] = "err"
          THEN /\ resp' = StorageFailure(op, result[2])
               /\ inflight' = [inflight EXCEPT ![r] = None]
          ELSE IF ~last
          THEN /\ result = <<"ok", TRUE>>
               /\ inflight' = [inflight EXCEPT
                                  ![r] = Some([@[1] EXCEPT
                                                  !.next = @ + 1,
                                                  !.conn = FALSE])]
               /\ UNCHANGED resp
          ELSE /\ op # "health" => result = <<"ok", TRUE>>
               /\ resp' = IF op = "health"
                          THEN PoolResponse(op, "Ok", result,
                                            HealthStatus(result, clock))
                          ELSE PoolResponse(op, "Ok", result,
                                            SuccessBody(op, clock))
               /\ inflight' = [inflight EXCEPT ![r] = None]
    /\ UNCHANGED <<rows, clock, listing>>

\* The results a statement may end with.
StatementResults ==
    {<<"ok", TRUE>>, <<"ok", FALSE>>}
        \cup {<<"err", text>> : text \in StorageDetails}

NextPool ==
    \/ \E r \in Reqs, op \in PoolOps : pool_begin(r, op)
    \/ \E r \in Reqs : pool_acquire(r)
    \/ \E r \in Reqs : pool_acquire_timeout(r)
    \/ \E r \in Reqs, result \in StatementResults : pool_execute(r, result)

SpecPool == Init /\ [][NextPool]_vars

\* A step of request r while it is a liveness request: its statement checks
\* a connection out, or times out waiting for one, or ends.
HealthStep(r) ==
    /\ inflight[r] # None
    /\ inflight[r][1].op = "health"
    /\ \/ pool_acquire(r)
       \/ pool_acquire_timeout(r)
       \/ \E result \in StatementResults : pool_execute(r, result)

\* The pool runs in which a liveness request keeps being run: the runtime
\* polls its task, the acquire timer fires and the database answers its
\* SELECT 1.  Nothing is assumed of the other requests, which may hold their
\* connections for ever.
SpecPoolLive ==
    Init /\ [][NextPool]_vars /\ \A r \in Reqs : WF_vars(HealthStep(r))

\* The statement of request r that holds a connection ends.
StatementEnds(r) == \E result \in StatementResults : pool_execute(r, result)

\* The requests of the fair runs: a handler of two statements and a handler
\* of one.
FairOps == {"create", "get"}

NextPoolFair ==
    \/ \E r \in Reqs, op \in FairOps : pool_begin(r, op)
    \/ \E r \in Reqs : pool_acquire(r)
    \/ \E r \in Reqs : pool_acquire_timeout(r)
    \/ \E r \in Reqs : StatementEnds(r)

\* The pool runs in which every statement that holds a connection ends (the
\* database answers) and a request that waits for a connection gets one if
\* connections keep coming free (the pool serves its waiters in turn).
\* Nothing is assumed of the acquire timeout.
SpecPoolFair ==
    /\ Init
    /\ [][NextPoolFair]_vars
    /\ \A r \in Reqs : WF_vars(StatementEnds(r)) /\ SF_vars(pool_acquire(r))

\* ------------------------------------------- concurrent update and delete
\*
\* Requests that overlap: a request is in flight from the moment its handler
\* starts until its one statement has run.  The statement itself is a single
\* UPDATE, which the storage engine runs atomically on the row: of two
\* statements on one row the later one evaluates its WHERE clause on the row
\* the earlier one left.  inflight[r] keeps the request with its result, and
\* with what the table showed of its id when it started.

RaceBodies == {BodyWith({"warehouse_name"}), BodyWith({"city", "phone"})}

\* An update or delete request for `id` starts.
race_begin(r, op, id, body) ==
    /\ inflight[r] = None
    /\ inflight' = [inflight EXCEPT
                       ![r] = Some([op |-> op, id |-> id, body |-> body,
                                    seen |-> \E i \in DOMAIN rows :
                                                /\ rows[i].warehouse_id = id
                                                /\ rows[i].is_active,
                                    result |-> None])]
    /\ UNCHANGED <<rows, resp, clock, listing, in_use>>

\* The statement of request r runs: WarehouseRepository::update or
\* WarehouseRepository::delete, and the handler's response.
race_execute(r) ==
    /\ inflight[r] # None
    /\ inflight[r][1].result = None
    /\ LET q == inflight[r][1]
       IN IF q.op = "delete"
          THEN LET res == delete(rows, q.id, clock)
               IN /\ rows' = res.rows
                  /\ inflight' = [inflight EXCEPT
                                     ![r] = Some([q EXCEPT !.result =
                                                     Some(res.affected)])]
                  /\ resp' = Response("delete", Some(q.id), None, None,
                                      IF res.affected THEN "Ok"
                                      ELSE "NotFound",
                                      Some(res.affected))
          ELSE LET res == update(rows, q.id, UpdateWarehouse(q.body), clock)
               IN /\ rows' = res.rows
                  /\ inflight' = [inflight EXCEPT
                                     ![r] = Some([q EXCEPT !.result =
                                                     Some(res.row)])]
                  /\ resp' = Response("update", Some(q.id), None,
                                      Some(q.body),
                                      IF res.row # None THEN "Ok"
                                      ELSE "NotFound",
                                      res.row)
    /\ UNCHANGED <<clock, listing, in_use>>

NextRace ==
    \/ \E r \in Reqs, id \in Ids : race_begin(r, "delete", id, EmptyBody)
    \/ \E r \in Reqs, id \in Ids, b \in RaceBodies :
          race_begin(r, "update", id, b)
    \/ \E r \in Reqs : race_execute(r)
    \/ Tick

SpecRace == InitMerge /\ [][NextRace]_vars

\* ------------------------------------------------ list beside writers
\*
\* list issues its COUNT query and its data query as two statements on the
\* pool, outside any transaction: the requests of other callers run between
\* them.

\* The queries of the list requests that run beside writers.
RaceQueries ==
    {PageLimit(None, None), PageLimit(Some(I64(1)), Some(I64(2))),
     PageLimit(Some(I64(2)), Some(I64(1)))}

NextListRace ==
    \/ \E q \in RaceQueries : list_warehouses_count(q)
    \/ list_warehouses_rows
    \/ \E id \in Ids : delete_warehouse(id)
    \/ \E r \in Reqs : create_warehouse_check(r, CreatePayload("WH-09"))
    \/ \E r \in Reqs : create_warehouse_insert(r)

SpecListRace == InitList /\ [][NextListRace]_vars

\* ------------------------------------------------- walking the pages
\*
\* A caller reads the list page by page with one limit while no request
\* writes.  With the table unchanging the two statements of a list call read
\* the same state, so a call is the choice of one of its results.

\* WarehouseRepository::list on table t: the responses the call may return.
\* A call that panics in calculate_offset, or whose data query the storage
\* engine rejects, returns none.
list(t, query) ==
    LET vp == validate_pagination(query)
        offsets == {o \in calculate_offset(vp[1], vp[2]) :
                      o[1] = "value" /\ ~o[2].neg}
    IN UNION {{PaginatedResponse(data, list_count(t), vp[1], vp[2]) :
                  data \in list_rows(t, vp[2], o[2])} : o \in offsets}

\* The sequences of responses to the list calls for pages p..n of limit.
RECURSIVE Walks(_, _, _, _)
Walks(t, limit, p, n) ==
    IF p > n THEN {<< >>}
    ELSE {<<first>> \o rest :
             first \in list(t, PageLimit(Some(I64(p)), Some(I64(limit)))),
             rest \in Walks(t, limit, p + 1, n)}

\* The limits of the walks.
WalkLimits == 1..(MaxListRows + 1)

\* A caller reads pages 1..total_pages of the list and the page after them.
walk_pages(limit) ==
    /\ listing = None
    /\ \E first \in list(rows, PageLimit(Some(I64(1)), Some(I64(limit)))) :
          \E rest \in Walks(rows, limit, 2,
                            first.pagination.total_pages + 1) :
             resp' = Response("pages", None, None, Some(limit), "Ok",
                              Some(<<first>> \o rest))
    /\ UNCHANGED <<rows, inflight, clock, listing, in_use>>

NextPages == \E limit \in WalkLimits : walk_pages(limit)

SpecPages == InitList /\ [][NextPages]_vars

\* ------------------------------------------------------------- properties

\* The positions of the active (inactive) rows that hold a code, and of the
\* active rows with an id, read off the table directly.
ActiveWith(t, code) ==
    {i \in DOMAIN t : t[i].is_active /\ t[i].warehouse_code = code}
InactiveWith(t, code) ==
    {i \in DOMAIN t : ~t[i].is_active /\ t[i].warehouse_code = code}
ActiveId(t, id) ==
    {i \in DOMAIN t : t[i].is_active /\ t[i].warehouse_id = id}
StoredIds(t) == {t[i].warehouse_id : i \in DOMAIN t}

\* This step returned a response of `op`.
Responded(op) == resp'.seq # resp.seq /\ resp'.op = op

\* This step is the INSERT of request r.
Inserting(r) == inflight[r] # None /\ inflight'[r] = None

NoneInFlight == \A r \in Reqs : inflight[r] = None

\* C1: in every reachable state no two active rows hold the same
\* warehouse_code, whatever the interleaving of pre-checks, inserts, updates
\* and deletes.
C1_ActiveCodesUnique ==
    \A i, j \in DOMAIN rows :
        (i # j /\ rows[i].is_active /\ rows[j].is_active)
            => rows[i].warehouse_code # rows[j].warehouse_code

\* C1 witness: a create passed the pre-check and is about to insert a code
\* that an active row, inserted meanwhile, already holds.
C1_Witness ==
    \E r \in Reqs :
        /\ inflight[r] # None
        /\ ActiveWith(rows, inflight[r][1].warehouse_code) # {}

\* C2: a create that passed the pre-check and whose INSERT the storage engine
\* rejects for the uniqueness constraint resolves to AlreadyExists
\* (ALREADY_EXISTS).
C2_RaceLoserAlreadyExists ==
    [][\A r \in Reqs :
          (Inserting(r) /\ ActiveWith(rows, inflight[r][1].warehouse_code) # {})
              => /\ resp'.op = "create"
                 /\ resp'.kind = "AlreadyExists"
                 /\ resp'.error_code = Some("ALREADY_EXISTS")]_vars

\* C3: with no other request in flight, a create request whose code an active
\* row holds does not pass the pre-check, resolves to AlreadyExists and leaves
\* the table as it was.
C3_CreateHeldCodeFails ==
    [][\A c \in Codes :
          (NoneInFlight /\ ActiveWith(rows, c) # {})
              => /\ \A r \in Reqs :
                       inflight'[r] # None
                           => inflight'[r][1].warehouse_code # c
                 /\ (Responded("create") /\ resp'.code = Some(c))
                       => /\ resp'.kind = "AlreadyExists"
                          /\ resp'.error_code = Some("ALREADY_EXISTS")
                          /\ rows' = rows]_vars

\* C3 witness: a create was answered AlreadyExists while an active row holds
\* its code and nothing is in flight.
C3_Witness ==
    /\ resp.op = "create"
    /\ resp.kind = "AlreadyExists"
    /\ NoneInFlight
    /\ ActiveWith(rows, resp.code[1]) # {}

\* C4: an update request whose body sets warehouse_code to a code held by a
\* different active row fails with AlreadyExists and leaves the table
\* unchanged; one that sets it to the row's own code succeeds.
C4_UpdateCodeUniqueness ==
    [][\A id \in Ids, c \in Codes :
          (/\ Responded("update")
           /\ resp'.id = Some(id)
           /\ resp'.body[1].warehouse_code = JsonVal(c)
           /\ ActiveId(rows, id) # {})
              => IF ActiveWith(rows, c) \ ActiveId(rows, id) # {}
                 THEN resp'.kind = "AlreadyExists" /\ rows' = rows
                 ELSE ActiveWith(rows, c) # {} => resp'.kind = "Ok"]_vars

\* C5: delete(id) returns true exactly when an active row with that id exists
\* at the call, and then the row is inactive; a delete(id) that directly
\* follows a delete(id) returns false and changes nothing.
C5_DeleteResult ==
    [][\A id \in Ids :
          (Responded("delete") /\ resp'.id = Some(id))
              => /\ resp'.data = Some(ActiveId(rows, id) # {})
                 /\ ActiveId(rows', id) = {}
                 /\ \A i \in ActiveId(rows, id) :
                       /\ i \in DOMAIN rows'
                       /\ rows'[i].warehouse_id = id
                       /\ ~rows'[i].is_active
                 /\ (resp.op = "delete" /\ resp.id = Some(id))
                       => resp'.data = Some(FALSE) /\ rows' = rows]_vars

\* C5 witness: delete answered false (NotFound) for an id whose row is stored
\* and already inactive.
C5_Witness ==
    /\ resp.op = "delete"
    /\ resp.data = Some(FALSE)
    /\ \E i \in DOMAIN rows :
          rows[i].warehouse_id = resp.id[1] /\ ~rows[i].is_active

\* C6: while a code is held by a soft-deleted row and by no active row,
\* code_exists(code, None) answers false, and a create request with that code
\* succeeds: it appends an active row with a new id and leaves the stored
\* rows, the soft-deleted one included, as they were.
C6_DeletedCodeReusable ==
    [][\A c \in Codes :
          (InactiveWith(rows, c) # {} /\ ActiveWith(rows, c) = {})
              => /\ (Responded("code_exists") /\ resp'.code = Some(c)
                        /\ resp'.id = None)
                       => resp'.data = Some(FALSE)
                 /\ (Responded("create") /\ resp'.code = Some(c))
                       => /\ resp'.kind = "Ok"
                          /\ Len(rows') = Len(rows) + 1
                          /\ \A i \in DOMAIN rows : rows'[i] = rows[i]
                          /\ rows'[Len(rows')].is_active
                          /\ rows'[Len(rows')].warehouse_code = c
                          /\ rows'[Len(rows')].warehouse_id \notin StoredIds(rows)
                          /\ resp'.data = Some(rows'[Len(rows')])]_vars

\* C6 witness: a create succeeded with the code of a stored soft-deleted row.
C6_Witness ==
    /\ resp.op = "create"
    /\ resp.kind = "Ok"
    /\ InactiveWith(rows, resp.code[1]) # {}
    /\ ActiveId(rows, resp.data[1].warehouse_id) # {}

\* C7: get_by_id(id) returns a row exactly when a row with that id is active,
\* and get_by_code(code) exactly when an active row holds the code, and the
\* row returned is that row; an inactive row stays inactive and no new row
\* takes a stored id, so get_by_id of a deleted id returns None ever after.
C7_GetVisibility ==
    [][/\ \A id \in Ids :
             (Responded("get") /\ resp'.id = Some(id))
                 => /\ (resp'.data # None) = (ActiveId(rows, id) # {})
                    /\ (resp'.kind = "Ok") = (ActiveId(rows, id) # {})
                    /\ \A i \in ActiveId(rows, id) : resp'.data = Some(rows[i])
       /\ \A c \in Codes :
             (Responded("get_by_code") /\ resp'.code = Some(c))
                 => /\ (resp'.data # None) = (ActiveWith(rows, c) # {})
                    /\ resp'.data # None
                          => \E i \in ActiveWith(rows, c) :
                                resp'.data = Some(rows[i])
       /\ \A i \in DOMAIN rows :
             ~rows[i].is_active
                 => /\ i \in DOMAIN rows'
                    /\ rows'[i].warehouse_id = rows[i].warehouse_id
                    /\ ~rows'[i].is_active
       /\ \A j \in DOMAIN rows' \ DOMAIN rows :
             rows'[j].warehouse_id \notin StoredIds(rows)]_vars

\* C7 witness: get answered NotFound for an id whose row is stored, inactive.
C7_Witness ==
    /\ resp.op = "get"
    /\ resp.kind = "NotFound"
    /\ \E i \in DOMAIN rows :
          rows[i].warehouse_id = resp.id[1] /\ ~rows[i].is_active

\* C8: no step removes a row: the set of stored ids never shrinks, and the
\* row a delete deactivated is still stored, with is_active = false.
C8_NoPhysicalDelete ==
    [][/\ StoredIds(rows) \subseteq StoredIds(rows')
       /\ Len(rows') >= Len(rows)
       /\ \A id \in Ids :
             (Responded("delete") /\ resp'.id = Some(id)
                 /\ resp'.data = Some(TRUE))
                 => \E i \in DOMAIN rows' :
                       rows'[i].warehouse_id = id /\ ~rows'[i].is_active]_vars

\* C8 witness: two rows are stored, one of them soft-deleted.
C8_Witness ==
    /\ Len(rows) >= 2
    /\ \E i \in DOMAIN rows : ~rows[i].is_active
    /\ resp.op = "delete"
    /\ resp.data = Some(TRUE)

\* C9: code_exists(code, exclude_id) is true exactly when some active row
\* whose id differs from exclude_id holds the code, and with exclude_id = None
\* exactly when any active row holds it; inactive rows never count.
C9_CodeExists ==
    [][\A c \in Codes :
          (Responded("code_exists") /\ resp'.code = Some(c))
              => IF resp'.id = None
                 THEN resp'.data = Some(ActiveWith(rows, c) # {})
                 ELSE resp'.data =
                        Some(\E i \in ActiveWith(rows, c) :
                                rows[i].warehouse_id # resp'.id[1])]_vars

\* C9 witness: code_exists answered false for a code whose only active holder
\* is the excluded id, while the table also stores an inactive row.
C9_Witness ==
    /\ resp.op = "code_exists"
    /\ resp.id # None
    /\ resp.data = Some(FALSE)
    /\ \E i \in ActiveWith(rows, resp.code[1]) :
          rows[i].warehouse_id = resp.id[1]
    /\ \E i \in DOMAIN rows : ~rows[i].is_active

\* C10: an update of an active row leaves every field whose key is absent
\* from the patch at its stored value, in the table and in the row returned.
C10_AbsentFieldsKept ==
    [][\A id \in Ids :
          (Responded("update") /\ resp'.id = Some(id) /\ resp'.kind = "Ok")
              => \A i \in ActiveId(rows, id), k \in UpdateKeys :
                    resp'.body[1][k] = Absent
                        => /\ rows'[i][k] = rows[i][k]
                           /\ resp'.data[1][k] = rows[i][k]]_vars

\* C10 witness: a patch with warehouse_name alone was applied to a row whose
\* city is Jakarta.
C10_Witness ==
    /\ resp.op = "update"
    /\ resp.kind = "Ok"
    /\ resp.body = Some(BodyWith({"warehouse_name"}))
    /\ \E i \in ActiveId(rows, resp.id[1]) :
          /\ rows[i].warehouse_name = "Renamed"
          /\ rows[i].city = Some("Jakarta")
          /\ rows[i].postal_code = Some("10110")

\* C11: an update of an active row stores, and returns, the patch's value for
\* every key of UpdateWarehouse the patch carries a value for.
C11_PresentFieldsOverwritten ==
    [][\A id \in Ids :
          (Responded("update") /\ resp'.id = Some(id) /\ resp'.kind = "Ok")
              => \A i \in ActiveId(rows, id), k \in UpdateKeys :
                    resp'.body[1][k][1] = "val"
                        => LET v == resp'.body[1][k][2]
                               stored == IF k = "warehouse_name"
                                         THEN v ELSE Some(v)
                           IN /\ rows'[i][k] = stored
                              /\ resp'.data[1][k] = stored]_vars

\* C12: an update of an active row whose patch carries an explicit null for
\* a nullable key stores null for it.
C12_ExplicitNullStored ==
    [][\A id \in Ids :
          (Responded("update") /\ resp'.id = Some(id) /\ resp'.kind = "Ok")
              => \A i \in ActiveId(rows, id), k \in NullableKeys :
                    resp'.body[1][k] = JsonNull => rows'[i][k] = None]_vars

\* The principal every write is attributed to (there is no authentication).
ActingPrincipal == 1

\* C13: an update that returns a record leaves the row, and returns it, with
\* updated_at equal to the current time, never earlier than the value it
\* had, and updated_by the acting principal, whatever keys the patch carries.
C13_AuditRefreshed ==
    [][(Responded("update") /\ resp'.data # None)
              => \A i \in ActiveId(rows, resp'.id[1]) :
                    /\ rows'[i].updated_at = Some(clock)
                    /\ rows'[i].updated_at[1] >= rows[i].updated_at[1]
                    /\ rows'[i].updated_by = Some(ActingPrincipal)
                    /\ resp'.data[1].updated_at = Some(clock)
                    /\ resp'.data[1].updated_by = Some(ActingPrincipal)]_vars

\* C13 witness: a patch without any key was applied after time had advanced,
\* so the refreshed updated_at is later than created_at.
C13_Witness ==
    /\ resp.op = "update"
    /\ resp.kind = "Ok"
    /\ resp.body = Some(BodyWith({}))
    /\ \E i \in ActiveId(rows, resp.id[1]) :
          /\ rows[i].updated_at = Some(clock)
          /\ rows[i].updated_at[1] > rows[i].created_at[1]
          /\ rows[i].updated_by = Some(ActingPrincipal)

\* C14: an update whose id no active row has returns no record, raises no
\* error, and leaves the table as it was.
C14_UpdateMissLeavesStore ==
    [][\A id \in Ids :
          (Responded("update") /\ resp'.id = Some(id)
             /\ resp'.kind # "Validation" /\ ActiveId(rows, id) = {})
              => /\ resp'.data = None
                 /\ resp'.kind = "NotFound"
                 /\ rows' = rows]_vars

\* C14 witness: an update found only an inactive row with its id, at a time
\* later than that row's updated_at.
C14_Witness ==
    /\ resp.op = "update"
    /\ resp.kind = "NotFound"
    /\ \E i \in DOMAIN rows :
          /\ rows[i].warehouse_id = resp.id[1]
          /\ ~rows[i].is_active
          /\ rows[i].updated_at[1] < clock
\* The keys of CreateWarehouse that are always supplied, and the optional ones.
RequiredKeys == {"warehouse_code", "warehouse_name"}

\* C15: a successful create returns, and stores as an active row, a record
\* that equals the payload on every field the payload supplies, with
\* warehouse_id, created_at and updated_at populated; and a get_by_id with
\* the returned id that directly follows it yields that same record.
C15_CreateThenGet ==
    [][/\ \A r \in Reqs :
             (Inserting(r) /\ resp'.kind = "Ok")
                 => LET w == inflight[r][1]
                        rec == resp'.data[1]
                    IN /\ \A k \in DOMAIN w :
                             IF k \in RequiredKeys
                             THEN rec[k] = w[k]
                             ELSE w[k] # None => rec[k] = w[k]
                       /\ rec.is_active
                       /\ rec.warehouse_id \in Nat \ {0}
                       /\ rec.created_at = Some(clock)
                       /\ rec.updated_at = Some(clock)
                       /\ \E i \in ActiveId(rows', rec.warehouse_id) :
                             rows'[i] = rec
       /\ (/\ resp.op = "create"
           /\ resp.kind = "Ok"
           /\ Responded("get")
           /\ resp'.id = Some(resp.data[1].warehouse_id))
              => /\ resp'.kind = "Ok"
                 /\ resp'.data = resp.data]_vars

\* C15 witness: a get returned the record created from the payload that
\* supplies every field.
C15_Witness ==
    /\ resp.op = "get"
    /\ resp.kind = "Ok"
    /\ \A k \in DOMAIN FullPayload :
          resp.data[1][k] = FullPayload[k]
    /\ resp.data[1].is_active
    /\ resp.data[1].created_at # None
\* ILIKE '%term%': is the term a substring of the text, letter case aside?
\* Tabulated for the search terms and the texts of the list runs.
ILike(text, term) == <<text, term>> \in {<<"Bravo", "bra">>}

\* Does a record match a search term in one of its searchable text fields?
MatchesSearch(row, term) ==
    \/ ILike(row.warehouse_name, term)
    \/ ILike(row.warehouse_code, term)

\* C16: a list that returns a page returns only active records and, when the
\* query has a search term, only records that match it; pagination.total is
\* the number of active records that match the search (of all active
\* records when there is no search term).
C16_ListFiltersAndCounts ==
    [][(Responded("list") /\ resp'.kind = "Ok")
          => LET q == resp'.body[1]
                 page == resp'.data[1]
             IN /\ \A j \in DOMAIN page.data :
                      /\ page.data[j].is_active
                      /\ q.search # None
                            => MatchesSearch(page.data[j], q.search[1])
                /\ page.pagination.total =
                      Cardinality({i \in DOMAIN rows :
                          /\ rows[i].is_active
                          /\ q.search # None
                                => MatchesSearch(rows[i], q.search[1])})]_vars

\* The values of sort_by that name a column, and the rank of a record in the
\* order of that column (codes are issued in the order of the ids).
SortColumns == {"name", "code", "created_at", "updated_at"}

SortRank(row, sort_by) ==
    CASE sort_by = Some("code") -> row.warehouse_id
      [] sort_by = Some("created_at") -> row.created_at[1]
      [] sort_by = Some("updated_at") -> row.updated_at[1]
      [] OTHER -> NameRank(row.warehouse_name)

\* C17: the records of a page come in the order of the column sort_by names
\* (the default column, warehouse_name, when it names none), descending when
\* sort_order is "desc" or "DESC" and ascending otherwise.
C17_ListOrder ==
    [][(Responded("list") /\ resp'.kind = "Ok")
          => LET q == resp'.body[1]
                 data == resp'.data[1].data
                 by == IF q.sort_by # None /\ q.sort_by[1] \in SortColumns
                       THEN q.sort_by ELSE None
                 desc == q.sort_order \in {Some("desc"), Some("DESC")}
             IN \A j \in 1..(Len(data) - 1) :
                   IF desc
                   THEN SortRank(data[j], by) >= SortRank(data[j + 1], by)
                   ELSE SortRank(data[j], by) <= SortRank(data[j + 1], by)]_vars

\* C18: whatever page and limit a list is called with, the offset is the
\* exact product (page - 1) * limit, inside the i64 range and not negative,
\* the limit is positive, and the call ends with a page, never an error.
C18_ListNeverFails ==
    /\ listing # None
          => /\ ~listing[1].offset.neg
             /\ I64Lt(I64(0), listing[1].limit)
             /\ FitsI64(MagMul(MagPred(listing[1].page.mag),
                               listing[1].limit.mag))
    /\ resp.op = "list" => resp.kind = "Ok"

\* The page and the limit a query's members stand for.
ExpectedPage(o) ==
    IF o = None THEN I64(1)
    ELSE IF o[1].neg \/ o[1] = I64(0) THEN I64(1)
    ELSE o[1]

ExpectedLimit(o) ==
    IF o = None THEN 20
    ELSE IF o[1].neg \/ o[1] = I64(0) THEN 1
    ELSE IF ~IsSmall(o[1]) \/ ToInt(o[1]) > 100 THEN 100
    ELSE ToInt(o[1])

\* C19: the page of a list is max(page, 1), 1 by default, and its limit is the
\* query's limit clamped to 1..100, 20 by default; the metadata reports that
\* page and limit, and the data query returns at most limit records: all of
\* the limit records from the offset on that the active rows have.
C19_ClampedLimitUsed ==
    [][(Responded("list") /\ resp'.kind = "Ok")
          => LET q == resp'.body[1]
                 page == resp'.data[1]
                 limit == ExpectedLimit(q.limit)
                 n == Cardinality({i \in DOMAIN rows : rows[i].is_active})
             IN /\ listing[1].page = ExpectedPage(q.page)
                /\ listing[1].limit = I64(limit)
                /\ page.pagination.page = ExpectedPage(q.page)
                /\ page.pagination.limit = I64(limit)
                /\ Len(page.data) <= limit
                /\ IsSmall(ExpectedPage(q.page))
                      => LET off == (ToInt(ExpectedPage(q.page)) - 1) * limit
                             rest == IF n > off THEN n - off ELSE 0
                         IN Len(page.data)
                                = IF limit < rest THEN limit ELSE rest]_vars

\* C19 witness: a list with page 0 and limit 2 over three active records
\* returned page 1 with two records.
C19_Witness ==
    /\ resp.op = "list"
    /\ resp.kind = "Ok"
    /\ resp.body[1].limit = Some(I64(2))
    /\ resp.body[1].page = Some(I64(0))
    /\ resp.data[1].pagination.page = I64(1)
    /\ resp.data[1].pagination.limit = I64(2)
    /\ resp.data[1].pagination.total = 3
    /\ Len(resp.data[1].data) = 2

C21_OffsetFormula ==
    resp.op = "calculate_offset"
        => LET page == resp.body[1].page
               limit == resp.body[1].limit
               o == resp.data[1]
               p1 == IF I64Lt(page, I64(1)) THEN I64(1) ELSE page
               l1 == IF I64Lt(limit, I64(1)) THEN I64(1) ELSE limit
           IN /\ o[1] = "value"
              /\ ~o[2].neg
              /\ o[2].mag \o <<0, 0, 0, 0, 0>>
                    = MagMul(MagPred(p1.mag), l1.mag)
              /\ (IsSmall(p1) /\ IsSmall(l1))
                    => /\ IsSmall(o[2])
                       /\ ToInt(o[2]) = (ToInt(p1) - 1) * ToInt(l1)
              /\ p1 = I64(1) => o[2] = I64(0)
\* The error code of each outcome kind in the taxonomy table.
TaxonomyCode ==
    [Validation |-> "VALIDATION_ERROR", NotFound |-> "NOT_FOUND",
     AlreadyExists |-> "ALREADY_EXISTS", Unauthorized |-> "UNAUTHORIZED",
     Forbidden |-> "FORBIDDEN", Database |-> "DATABASE_ERROR",
     Config |-> "CONFIG_ERROR", ExternalService |-> "EXTERNAL_SERVICE_ERROR",
     Internal |-> "INTERNAL_ERROR"]

\* C26: into_response gives each outcome kind the error code of the taxonomy
\* table, whatever text the error carries, and no two kinds the same code.
C26_TaxonomyCodes ==
    /\ \A k1, k2 \in DOMAIN TaxonomyCode :
          k1 # k2 => TaxonomyCode[k1] # TaxonomyCode[k2]
    /\ resp.op = "into_response"
          => /\ resp.body[1].kind \in DOMAIN TaxonomyCode
             /\ resp.data[1].body.error.code
                   = TaxonomyCode[resp.body[1].kind]

\* C26 witness: a storage failure was rendered with code DATABASE_ERROR.
C26_Witness ==
    /\ resp.op = "into_response"
    /\ resp.body[1].kind = "Database"
    /\ resp.data[1].body.error.code = "DATABASE_ERROR"
    /\ resp.data[1].status = 500

\* The requests that hold a connection of the pool.
Holding == {r \in Reqs : inflight[r] # None /\ inflight[r][1].conn}

\* C28: every statement of a repository method gives its connection back on
\* every exit path: the connections checked out are exactly those of the
\* statements now running, never more than the pool's maximum, and none once
\* every request in flight has ended.
C28_ConnectionsReleased ==
    /\ in_use = Cardinality(Holding)
    /\ in_use <= PoolSize
    /\ NoneInFlight => in_use = 0

\* C28 witness: a request ended on a statement's error and nothing is left
\* in flight.
C28_Witness ==
    /\ resp.op = "create"
    /\ resp.cause = <<"err", "connection refused">>
    /\ NoneInFlight
    /\ in_use = 0

\* C29: the liveness operation never fails: whether the probe answered true,
\* answered false or failed, the response is a success whose database status
\* is healthy, unhealthy or error accordingly, and the overall status is
\* healthy exactly when the database status is.
C29_HealthNeverFails ==
    resp.op = "health" =>
        /\ resp.kind = "Ok"
        /\ resp.error_code = None
        /\ resp.sent.services.database.status =
              (IF resp.cause = <<"ok", TRUE>> THEN "healthy"
               ELSE IF resp.cause = <<"ok", FALSE>> THEN "unhealthy"
               ELSE "error")
        /\ resp.sent.status \in {"healthy", "unhealthy"}
        /\ resp.sent.status = "healthy"
              <=> resp.sent.services.database.status = "healthy"

\* C29 witness: the probe failed and the liveness response reports the
\* database status error.
C29_Witness ==
    /\ resp.op = "health"
    /\ resp.kind = "Ok"
    /\ resp.cause = <<"err", "connection refused">>
    /\ resp.sent.services.database.status = "error"
    /\ resp.sent.status = "unhealthy"

\* C22: a storage failure inside a repository operation (list, get, create,
\* update, delete, code_exists) reaches the caller as the kind Database with
\* the code DATABASE_ERROR, never as INTERNAL_ERROR.
C22_StorageFailureIsDatabaseError ==
    (resp.op \in EnvelopeOps /\ resp.cause[1] = "err") =>
        /\ resp.kind = "Database"
        /\ resp.sent.error.code = "DATABASE_ERROR"

\* The response r answers a request that failed in storage.
StorageOriginated(r) == r.op \in PoolOps /\ r.cause[1] = "err"

\* What the caller reads of the failure in response r: the code and the
\* message of the error object, or the database entry of the health status.
CallerVisible(r) ==
    IF r.op = "health"
    THEN <<r.sent.services.database.status, r.sent.services.database.error>>
    ELSE <<r.sent.error.code, Some(r.sent.error.message)>>

\* C23: the text returned to the caller for a storage-originated failure is
\* a fixed generic message: two failures of the same operation that differ
\* only in the internal detail of the storage error show the caller the same
\* message and the same code.
C23_GenericStorageMessage ==
    [][(/\ resp'.seq # resp.seq
        /\ StorageOriginated(resp)
        /\ StorageOriginated(resp')
        /\ resp'.op = resp.op)
          => CallerVisible(resp') = CallerVisible(resp)]_vars

\* The body b has the shape of the envelope's success path.
SuccessShape(b) ==
    /\ "success" \in DOMAIN b
    /\ b.success = TRUE
    /\ "data" \in DOMAIN b
    /\ b.data # None
    /\ "error" \notin DOMAIN b

\* The body b has the shape of the envelope's failure path.
FailureShape(b) ==
    /\ "success" \in DOMAIN b
    /\ b.success = FALSE
    /\ "error" \in DOMAIN b
    /\ DOMAIN b.error = {"code", "message", "timestamp"}

\* C27: every response has success = true with data present and no error
\* object on the success path, and success = false with an error object of
\* code, message and timestamp on the failure path.
C27_EnvelopeShape ==
    resp.op \in PoolOps =>
        IF resp.kind = "Ok"
        THEN SuccessShape(resp.sent)
        ELSE FailureShape(resp.sent)

\* Request r is a liveness request in flight.
HealthInFlight(r) == inflight[r] # None /\ inflight[r][1].op = "health"

\* C30: the liveness operation eventually returns, also while other
\* repository operations hold every connection of the shared pool.
C30_HealthReturns ==
    \A r \in Reqs : HealthInFlight(r) ~> ~HealthInFlight(r)

\* C30 witness: a liveness request has returned while another request still
\* holds every connection of the pool.
C30_Witness ==
    /\ resp.op = "health"
    /\ resp.cause = <<"err", PoolTimedOut>>
    /\ in_use = PoolSize
    /\ \A r \in Reqs : ~HealthInFlight(r)

\* C24: for create and update requests validation runs before any storage
\* call: a request whose payload fails validation resolves to Validation,
\* also when its code is held or its id is absent, and it leaves the table
\* and the pending inserts as they were.
C24_ValidationBeforeStorage ==
    [][/\ (Responded("create") /\ ~ValidateCreate(resp'.body[1]))
            => resp'.kind = "Validation"
       /\ (Responded("update")
             /\ ~ValidateUpdate(UpdateWarehouse(resp'.body[1])))
            => resp'.kind = "Validation"
       /\ (resp'.seq # resp.seq /\ resp'.kind = "Validation")
            => /\ resp'.op \in {"create", "update"}
               /\ rows' = rows
               /\ inflight' = inflight]_vars

\* C24 witness: a create request with an invalid email and the code of an
\* active row resolved to Validation.
C24_Witness ==
    /\ resp.op = "create"
    /\ resp.kind = "Validation"
    /\ resp.body[1].email = Some("not-an-email")
    /\ ActiveWith(rows, "WH-01") # {}

\* The outcome of a request for `id` that reached the repository, read off
\* the table `t` before the request: NotFound when no active row has the id.
ExpectedKind(t, id) == IF ActiveId(t, id) = {} THEN "NotFound" ELSE "Ok"

\* C25: every request resolves to exactly one outcome kind and absence is
\* mapped to NotFound: a get, a delete or a (valid) update request for an id
\* that is absent or inactive resolves to NotFound with the code NOT_FOUND,
\* and for an active id it resolves to success.
C25_AbsenceIsNotFound ==
    [][(/\ resp'.seq # resp.seq
        /\ resp'.op \in {"get", "update", "delete"}
        /\ resp'.op = "update"
              => ValidateUpdate(UpdateWarehouse(resp'.body[1])))
          => /\ resp'.kind = ExpectedKind(rows, resp'.id[1])
             /\ resp'.error_code =
                   (IF ActiveId(rows, resp'.id[1]) = {}
                    THEN Some("NOT_FOUND") ELSE None)]_vars

\* C25 witness: a delete request for the id of an inactive row resolved to
\* NotFound.
C25_Witness ==
    /\ resp.op = "delete"
    /\ resp.kind = "NotFound"
    /\ resp.error_code = Some("NOT_FOUND")
    /\ \E i \in DOMAIN rows :
          rows[i].warehouse_id = resp.id[1] /\ ~rows[i].is_active

\* The columns of a row that no update may write.
FrameColumns ==
    {"warehouse_id", "warehouse_code", "is_active", "created_at",
     "created_by"}

\* C31: an update request leaves the target record's warehouse_id,
\* warehouse_code, is_active, created_at and created_by as they were, and
\* leaves every other record as it was, field by field; it neither adds nor
\* removes a record.
C31_UpdateFrame ==
    [][Responded("update") =>
          /\ Len(rows') = Len(rows)
          /\ \A i \in DOMAIN rows :
                IF rows[i].warehouse_id = resp'.id[1]
                THEN \A k \in FrameColumns : rows'[i][k] = rows[i][k]
                ELSE rows'[i] = rows[i]]_vars

\* C31 witness: an update took effect on one of two stored records, with a
\* body that carries a warehouse_code other than the record's.
C31_Witness ==
    /\ resp.op = "update"
    /\ resp.kind = "Ok"
    /\ resp.body[1].warehouse_code = JsonVal("WH-01")
    /\ resp.data[1].warehouse_code = "WH-02"
    /\ Len(rows) = 2

\* The requests of `op` for `id` whose statement has run, among those that
\* started while the id was active.
Ran(op, id) ==
    {r \in Reqs : /\ inflight[r] # None
                  /\ inflight[r][1].op = op
                  /\ inflight[r][1].id = id
                  /\ inflight[r][1].result # None}
RanSeen(op, id) == {r \in Ran(op, id) : inflight[r][1].seen}

\* C32: of the delete requests for one active id that run concurrently
\* exactly one returns true and every other returns false; an update that
\* runs concurrently with a delete of its id returns either the merged
\* record (it ran before the delete) or None (it ran after), and once the
\* delete has run the record is inactive in both cases.
C32_ConcurrentDeleteUpdate ==
    \A id \in Ids :
        /\ RanSeen("delete", id) # {}
              => /\ Cardinality({r \in Ran("delete", id) :
                                    inflight[r][1].result = Some(TRUE)}) = 1
                 /\ \A r \in Ran("delete", id) :
                       inflight[r][1].result \in {Some(TRUE), Some(FALSE)}
                 /\ ActiveId(rows, id) = {}
        /\ \A u \in RanSeen("update", id) :
              LET got == inflight[u][1].result[1]
                  p == UpdateWarehouse(inflight[u][1].body)
              IN IF got = None
                 THEN \E d \in Ran("delete", id) :
                         inflight[d][1].result = Some(TRUE)
                 ELSE /\ got[1].warehouse_id = id
                      /\ got[1].is_active
                      /\ \A k \in {"warehouse_name"} :
                            p[k] # None => got[1][k] = p[k][1]
                      /\ \A k \in {"city", "phone"} :
                            p[k] # None => got[1][k] = p[k]

\* C32 witness: two deletes of one id both started while it was active; the
\* first returned true and the second false.
C32_Witness ==
    /\ inflight[1] # None
    /\ inflight[2] # None
    /\ inflight[1][1].op = "delete"
    /\ inflight[2][1].op = "delete"
    /\ inflight[1][1].id = inflight[2][1].id
    /\ inflight[1][1].seen
    /\ inflight[2][1].seen
    /\ inflight[1][1].result = Some(TRUE)
    /\ inflight[2][1].result = Some(FALSE)

\* C33: is_active is monotone: whatever create, update or delete request
\* runs, a record with is_active = false stays in the table with its id and
\* with is_active = false, so no get returns it again.
C33_InactiveStaysInactive ==
    [][/\ \A i \in DOMAIN rows :
             ~rows[i].is_active
                => /\ i \in DOMAIN rows'
                   /\ rows'[i].warehouse_id = rows[i].warehouse_id
                   /\ ~rows'[i].is_active
       /\ (Responded("get") /\ resp'.kind = "Ok")
             => resp'.data[1].is_active]_vars

\* C33 witness: a create succeeded with the code of a soft-deleted record,
\* which is still stored and inactive beside the new one.
C33_Witness ==
    /\ resp.op = "create"
    /\ resp.kind = "Ok"
    /\ Len(rows) = 2
    /\ ~rows[1].is_active
    /\ rows[2].is_active
    /\ rows[1].warehouse_code = rows[2].warehouse_code

\* C34: the result of one list call is consistent with a single state of
\* the table: pagination.total is the number of active records of the state
\* the returned page was read from, also when creates or deletes ran between
\* the count query and the data query.
C34_ListSingleState ==
    [][(Responded("list") /\ resp'.kind = "Ok")
          => resp'.data[1].pagination.total =
                Cardinality({i \in DOMAIN rows : rows[i].is_active})]_vars

\* The ids of the records on page p of the walk w.
PageIds(w, p) == {w[p].data[j].warehouse_id : j \in DOMAIN w[p].data}

\* C35: on an unchanging table and for a fixed limit the pages
\* 1..total_pages of the list partition the active records: each page holds
\* at most limit records, no record is on two pages or twice on one, every
\* active record is on some page, and the page after total_pages is empty;
\* also when active records share a warehouse_name.
C35_PagesPartition ==
    resp.op = "pages" =>
        LET w == resp.data[1]
            limit == resp.body[1]
            n == w[1].pagination.total_pages
        IN /\ Len(w) = n + 1
           /\ \A p \in 1..n :
                 /\ Len(w[p].data) <= limit
                 /\ Cardinality(PageIds(w, p)) = Len(w[p].data)
           /\ \A p, q \in 1..n : p # q => PageIds(w, p) \cap PageIds(w, q) = {}
           /\ \A i \in DOMAIN rows :
                 rows[i].is_active
                    => \E p \in 1..n : rows[i].warehouse_id \in PageIds(w, p)
           /\ w[n + 1].data = << >>

\* C36: no request waits for ever on the pool: every operation that started
\* eventually completes, whatever the other requests in flight are.
C36_EveryRequestCompletes ==
    \A r \in Reqs : (inflight[r] # None) ~> (inflight[r] = None)

\* C36 witness: a request waits for a connection while a create request
\* holds every connection of the pool for its second statement.
C36_Witness ==
    /\ inflight[1] # None
    /\ ~inflight[1][1].conn
    /\ inflight[2] # None
    /\ inflight[2][1].op = "create"
    /\ inflight[2][1].next = 2
    /\ inflight[2][1].conn
    /\ in_use = PoolSize
====
